---------------------------- MODULE Spec2Model ----------------------------
(***************************************************************************)
(* Model of python_graphrag_agent:                                         *)
(*   - 2_ingest_data.py : Neo4jCreateWriter (wipe, MERGE nodes, CREATE     *)
(*     relationships) against a property-graph store;                      *)
(*   - 1_prepare_data.py: process_data / combine_chunk_graphs / main.      *)
(*                                                                         *)
(* Python values are represented as follows.                               *)
(*   dict            a sequence of <<key, value>> pairs with distinct keys *)
(*                   (Python dicts keep insertion order);                  *)
(*   Optional[dict]  [none |-> TRUE,  items |-> <<>>]   for None,          *)
(*                   [none |-> FALSE, items |-> d]      for the dict d;    *)
(*   None as a property value: the reserved string PyNone.                 *)
(***************************************************************************)
EXTENDS Integers, Sequences, FiniteSets, Bags, TLC

VARIABLES
    \* ---- 2_ingest_data.py ----
    graph,      \* the Neo4jGraph handed to Neo4jCreateWriter.run
    store,      \* the Neo4j database: [nodes: Seq(stored node), edges: Bag(stored edge)]
    pc,         \* position inside run: "idle","wipe","nodes","rels","return","done"
    idx,        \* loop index of the node / relationship loop (1-based)
    calls,      \* the store calls issued by the current run, in order
    result,     \* the KGWriterModel returned by the last run
    driver_up,  \* whether the database stays reachable and sound during the run
    entry,      \* the store's contents when the current run was called
    \* ---- 1_prepare_data.py: combine_chunk_graphs on its own ----
    chunk_input,  \* the argument of combine_chunk_graphs
    combined,     \* its return value
    mpc,          \* "call" before the call, "returned" after it
    \* ---- 1_prepare_data.py: main / process_data ----
    has_key,      \* whether OPENAI_API_KEY is set
    episodes,     \* what collect_data returns
    oracle,       \* what llm_call_structured does for each episode
    ppc,          \* position inside main / process_data
    ep,           \* index of the episode the loop of process_data is at
    chunk_graphs, \* process_data's list of partial graphs
    kept,         \* the episodes whose graph was appended to chunk_graphs
    final_graph,  \* what process_data returned
    saved,        \* the output files written
    exit_code,    \* what main returned (-1: it has not returned)
    error         \* the exception main caught ("": none)

wvars == <<graph, store, pc, idx, calls, result, driver_up, entry>>

mvars == <<chunk_input, combined, mpc>>

pvars == <<has_key, episodes, oracle, ppc, ep, chunk_graphs, kept, final_graph,
           saved, exit_code, error>>

vars == <<wvars, mvars, pvars>>

-----------------------------------------------------------------------------
(* Bounds *)
MaxNodes == 2
MaxRels == 2
MaxChunks == 3
MaxEpisodes == 2

-----------------------------------------------------------------------------
(* Python values *)

PyNone == "None"

NoneProps == [none |-> TRUE, items |-> <<>>]

Dict(items) == [none |-> FALSE, items |-> items]

\* `x or {}` for an Optional[dict] x: None and the empty dict are falsy.
OrEmpty(p) == IF p.none THEN <<>> ELSE p.items

Keys(items) == {items[k][1] : k \in DOMAIN items}

Lookup(items, key) == items[CHOOSE k \in DOMAIN items : items[k][1] = key][2]

\* d[key] = value: an existing key keeps its place, a new key goes last.
DictSet(items, key, value) ==
    IF key \in Keys(items)
    THEN [k \in DOMAIN items |-> IF items[k][1] = key THEN <<key, value>> ELSE items[k]]
    ELSE Append(items, <<key, value>>)

\* d.get(key, default)
DictGet(items, key, default) ==
    IF key \in Keys(items) THEN Lookup(items, key) ELSE default

\* d1 == d2 for dicts: the same keys with the same values, in any order.
DictEq(a, b) == {a[k] : k \in DOMAIN a} = {b[k] : k \in DOMAIN b}

\* str(x) for an Optional[dict] x, as the sequence of its tokens:
\* "None", or "{" key ":" value "," ... "}" in insertion order.
RECURSIVE StrItems(_, _)
StrItems(items, k) ==
    IF k = 0 THEN <<>>
    ELSE StrItems(items, k - 1) \o (IF k > 1 THEN <<",">> ELSE <<>>)
            \o <<items[k][1], ":", items[k][2]>>

PyStr(p) ==
    IF p.none THEN <<"None">> ELSE <<"{">> \o StrItems(p.items, Len(p.items)) \o <<"}">>

\* All sequences over S of length at most n.
SeqsUpTo(S, n) == UNION {[1..k -> S] : k \in 0..n}

-----------------------------------------------------------------------------
(* The property-graph store (Neo4j semantics of the three statements) *)

EmptyStore == [nodes |-> <<>>, edges |-> EmptyBag]

\* A stored node has one label and a property map that holds its id.
HasId(n, id) == "id" \in DOMAIN n.props /\ n.props["id"] = id

\* Cypher `SET n += $props`: keys of $props overwrite, null values remove.
SetProps(old, items) ==
    LET removed == {k \in Keys(items) : Lookup(items, k) = PyNone}
        written == Keys(items) \ removed
    IN  [k \in (DOMAIN old \ removed) \cup written |->
            IF k \in written THEN Lookup(items, k) ELSE old[k]]

\* Cypher `CREATE ()-[r:T $props]->()`: null values are not stored.
RelProps(items) ==
    LET written == {k \in Keys(items) : Lookup(items, k) # PyNone}
    IN  [k \in written |-> Lookup(items, k)]

\* Mutant: "MATCH ()-[r]->() DELETE r" (the nodes stay).
WipeStore_KeepNodes(st) == [st EXCEPT !.edges = EmptyBag]

\* "MATCH (n) DETACH DELETE n"
WipeStore(st) == EmptyStore

\* Mutant: "CREATE (n:<label> {id: $id}) SET n += $props".
MergeNode_Create(st, node) ==
    [st EXCEPT !.nodes =
        Append(@, [label |-> node.label,
                   props |-> SetProps("id" :> node.id, OrEmpty(node.properties)),
                   prior |-> FALSE])]

\* "MERGE (n:<label> {id: $id}) SET n += $props"
MergeNode(st, node) ==
    LET matched == {k \in DOMAIN st.nodes :
                       st.nodes[k].label = node.label /\ HasId(st.nodes[k], node.id)}
        base    == IF matched = {}
                   THEN Append(st.nodes, [label |-> node.label,
                                          props |-> ("id" :> node.id),
                                          prior |-> FALSE])
                   ELSE st.nodes
        target  == IF matched = {} THEN {Len(base)} ELSE matched
    IN  [st EXCEPT !.nodes =
            [k \in DOMAIN base |->
                IF k \in target
                THEN [base[k] EXCEPT !.props = SetProps(@, OrEmpty(node.properties))]
                ELSE base[k]]]

\* Rows of "MATCH (a {id: $start_id}), (b {id: $end_id})": label-blind.
MatchEnds(st, rel) ==
    {ab \in (DOMAIN st.nodes) \X (DOMAIN st.nodes) :
        HasId(st.nodes[ab[1]], rel.start_node_id) /\ HasId(st.nodes[ab[2]], rel.end_node_id)}

\* Mutant: "MATCH ... MERGE (a)-[r:<type> $props]->(b)" (the stock writer).
CreateRel_Merge(st, rel) ==
    LET same(e, f) == [e EXCEPT !.prior = FALSE] = [f EXCEPT !.prior = FALSE]
        rows == {[type  |-> rel.type, src |-> ab[1], dst |-> ab[2],
                  props |-> RelProps(OrEmpty(rel.properties)),
                  prior |-> FALSE] : ab \in MatchEnds(st, rel)}
    IN  [st EXCEPT !.edges =
            @ (+) SetToBag({r \in rows : \A e \in BagToSet(st.edges) : ~same(e, r)})]

\* "MATCH ... CREATE (a)-[r:<type> $props]->(b)": one new edge per matched row.
CreateRel(st, rel) ==
    [st EXCEPT !.edges = @ (+) SetToBag({[type  |-> rel.type,
                                           src   |-> ab[1],
                                           dst   |-> ab[2],
                                           props |-> RelProps(OrEmpty(rel.properties)),
                                           prior |-> FALSE] : ab \in MatchEnds(st, rel)})]

NodeCount(st) == Len(st.nodes)

EdgeCount(st) == BagCardinality(st.edges)

\* What was in the store when run was called is marked prior.
MarkPrior(st) ==
    [nodes |-> [k \in DOMAIN st.nodes |-> [st.nodes[k] EXCEPT !.prior = TRUE]],
     edges |-> IF st.edges = EmptyBag THEN EmptyBag
               ELSE LET old == BagToSet(st.edges)
                        mark(e) == [e EXCEPT !.prior = TRUE]
                    IN  [f \in {mark(e) : e \in old} |->
                            CopiesIn([f EXCEPT !.prior = FALSE], st.edges)
                            + CopiesIn(f, st.edges)]]

-----------------------------------------------------------------------------
(* Inputs of the writer *)

NodeUniverse ==
    { [id |-> "N0",  label |-> "person", properties |-> Dict(<< <<"name", "A">> >>)],
      [id |-> "N0",  label |-> "person", properties |-> Dict(<< <<"name", "B">> >>)],
      [id |-> "N0",  label |-> "demon",  properties |-> NoneProps],
      [id |-> "N13", label |-> "demon",  properties |-> Dict(<< <<"name", "B">> >>)],
      [id |-> "N13", label |-> "demon",  properties |-> Dict(<< <<"id", "N0">> >>)] }

RelUniverse ==
    { [type |-> "FIGHTS", start_node_id |-> "N0", end_node_id |-> "N13",
       properties |-> Dict(<< <<"episode_number", "S1E01">> >>)],
      [type |-> "FIGHTS", start_node_id |-> "N13", end_node_id |-> "N0",
       properties |-> NoneProps],
      [type |-> "FIGHTS", start_node_id |-> "N0", end_node_id |-> "N99",
       properties |-> Dict(<< <<"episode_number", "S1E02">> >>)] }

Graphs ==
    {[nodes |-> ns, relationships |-> rs] :
        ns \in SeqsUpTo(NodeUniverse, MaxNodes), rs \in SeqsUpTo(RelUniverse, MaxRels)}

\* Contents the database may hold before the first load.
PriorStores ==
    { EmptyStore,
      [nodes |-> << [label |-> "person", props |-> ("id" :> "N0" @@ "age" :> "15"),
                     prior |-> FALSE],
                    [label |-> "place", props |-> ("id" :> "P1"), prior |-> FALSE] >>,
       edges |-> SetToBag({[type |-> "LIVES_IN", src |-> 1, dst |-> 2,
                            props |-> ("since" :> "S0"), prior |-> FALSE]})] }

-----------------------------------------------------------------------------
(* Neo4jCreateWriter.run *)

NoResult == [status |-> "NONE", node_count |-> 0, relationship_count |-> 0, error |-> ""]

Success(g) ==
    [status |-> "SUCCESS", node_count |-> Len(g.nodes),
     relationship_count |-> Len(g.relationships), error |-> ""]

Failure(msg) ==
    [status |-> "FAILURE", node_count |-> 0, relationship_count |-> 0, error |-> msg]

DriverError == "ServiceUnavailable"

\* Mutant: a relationship write that matches no endpoint always raises.
DriverRaises_OnDangling ==
    IF pc = "rels" /\ MatchEnds(store, graph.relationships[idx]) = {}
    THEN {TRUE}
    ELSE IF driver_up THEN {FALSE} ELSE BOOLEAN

\* Whether the driver raises on a store call (execute_query, session.run):
\* never while the database stays up, and otherwise on any call.
DriverRaises == IF driver_up THEN {FALSE} ELSE BOOLEAN

Call(op, k, raised, made) == [op |-> op, idx |-> k, raised |-> raised, created |-> made]

\* Mutant: the relationship loop placed before the node loop.
AfterWipe_RelsFirst(g) ==
    IF Len(g.relationships) > 0 THEN "rels"
    ELSE IF Len(g.nodes) > 0 THEN "nodes" ELSE "return"

\* Where control goes after the wipe / after node k / after relationship k.
AfterWipe(g) ==
    IF Len(g.nodes) > 0 THEN "nodes"
    ELSE IF Len(g.relationships) > 0 THEN "rels" ELSE "return"

AfterNode(g, k) ==
    IF k < Len(g.nodes) THEN "nodes"
    ELSE IF Len(g.relationships) > 0 THEN "rels" ELSE "return"

AfterRel(g, k) == IF k < Len(g.relationships) THEN "rels" ELSE "return"

WInit ==
    /\ graph \in Graphs
    /\ store \in PriorStores
    /\ pc = "idle"
    /\ idx = 0
    /\ calls = <<>>
    /\ result = NoResult
    /\ driver_up = TRUE
    /\ entry = store

\* The writer is not running (the specifications of 1_prepare_data.py).
WIdle ==
    /\ graph = [nodes |-> <<>>, relationships |-> <<>>]
    /\ store = EmptyStore
    /\ pc = "idle"
    /\ idx = 0
    /\ calls = <<>>
    /\ result = NoResult
    /\ driver_up = TRUE
    /\ entry = EmptyStore

\* writer.run(graph) is entered (line 28).
RunCall ==
    /\ pc \in {"idle", "done"}
    /\ pc' = "wipe"
    /\ store' = MarkPrior(store)
    /\ calls' = <<>>
    /\ idx' = 0
    /\ result' = NoResult
    /\ driver_up' \in BOOLEAN
    /\ entry' = store
    /\ UNCHANGED <<graph, mvars, pvars>>

\* self._wipe_database() (line 30)
Wipe ==
    /\ pc = "wipe"
    /\ \E raises \in DriverRaises :
       IF raises
       THEN /\ calls' = Append(calls, Call("wipe", 0, TRUE, 0))
            /\ result' = Failure(DriverError)
            /\ pc' = "done"
            /\ UNCHANGED <<store, idx>>
       ELSE /\ calls' = Append(calls, Call("wipe", 0, FALSE, 0))
            /\ store' = WipeStore(store)
            /\ pc' = AfterWipe(graph)
            /\ idx' = 1
            /\ UNCHANGED result
    /\ UNCHANGED <<graph, driver_up, entry, mvars, pvars>>

\* one iteration of `for node in graph.nodes` (lines 33-41)
WriteNode ==
    /\ pc = "nodes"
    /\ \E raises \in DriverRaises :
       IF raises
       THEN /\ calls' = Append(calls, Call("node", idx, TRUE, 0))
            /\ result' = Failure(DriverError)
            /\ pc' = "done"
            /\ UNCHANGED <<store, idx>>
       ELSE /\ store' = MergeNode(store, graph.nodes[idx])
            /\ calls' = Append(calls, Call("node", idx, FALSE,
                                           NodeCount(store') - NodeCount(store)))
            /\ pc' = AfterNode(graph, idx)
            /\ idx' = IF idx < Len(graph.nodes) THEN idx + 1 ELSE 1
            /\ UNCHANGED result
    /\ UNCHANGED <<graph, driver_up, entry, mvars, pvars>>

\* Mutant: the exception of a relationship write is swallowed, the loop goes on.
WriteRel_SkipError ==
    /\ pc = "rels"
    /\ \E raises \in DriverRaises :
       IF raises
       THEN /\ calls' = Append(calls, Call("rel", idx, TRUE, 0))
            /\ UNCHANGED store
       ELSE /\ store' = CreateRel(store, graph.relationships[idx])
            /\ calls' = Append(calls, Call("rel", idx, FALSE,
                                           EdgeCount(store') - EdgeCount(store)))
    /\ pc' = AfterRel(graph, idx)
    /\ idx' = idx + 1
    /\ UNCHANGED <<graph, driver_up, entry, result, mvars, pvars>>

\* one iteration of `for rel in graph.relationships` (lines 44-55)
WriteRel ==
    /\ pc = "rels"
    /\ \E raises \in DriverRaises :
       IF raises
       THEN /\ calls' = Append(calls, Call("rel", idx, TRUE, 0))
            /\ result' = Failure(DriverError)
            /\ pc' = "done"
            /\ UNCHANGED <<store, idx>>
       ELSE /\ store' = CreateRel(store, graph.relationships[idx])
            /\ calls' = Append(calls, Call("rel", idx, FALSE,
                                           EdgeCount(store') - EdgeCount(store)))
            /\ pc' = AfterRel(graph, idx)
            /\ idx' = idx + 1
            /\ UNCHANGED result
    /\ UNCHANGED <<graph, driver_up, entry, mvars, pvars>>

\* return KGWriterModel(status="SUCCESS", ...) (lines 57-63)
Return ==
    /\ pc = "return"
    /\ result' = Success(graph)
    /\ pc' = "done"
    /\ UNCHANGED <<graph, store, idx, calls, driver_up, entry, mvars, pvars>>

WNext == RunCall \/ Wipe \/ WriteNode \/ WriteRel \/ Return

-----------------------------------------------------------------------------
(* combine_chunk_graphs *)

EmptyGraph == [nodes |-> <<>>, relationships |-> <<>>]

\* node_key = (node.id, node.label, str(node.properties))
NodeKey(node) == <<node.id, node.label, PyStr(node.properties)>>

\* all_nodes after the first k chunk graphs (step 1)
RECURSIVE AllNodes(_, _)
AllNodes(gs, k) == IF k = 0 THEN <<>> ELSE AllNodes(gs, k - 1) \o gs[k].nodes

\* all_relationships after the first k chunk graphs (step 2)
RECURSIVE AllRelationships(_, _)
AllRelationships(gs, k) ==
    IF k = 0 THEN <<>> ELSE AllRelationships(gs, k - 1) \o gs[k].relationships

\* Mutant: a later node with a key already seen replaces the one kept.
RECURSIVE UniqueNodes_KeepLast(_, _)
UniqueNodes_KeepLast(all, k) ==
    IF k = 0 THEN <<>>
    ELSE LET prev == UniqueNodes_KeepLast(all, k - 1)
         IN  Append(SelectSeq(prev, LAMBDA n : NodeKey(n) # NodeKey(all[k])), all[k])

\* unique_nodes after the first k nodes of all_nodes (step 3); `seen` then
\* holds the keys of exactly those k nodes.
RECURSIVE UniqueNodes(_, _)
UniqueNodes(all, k) ==
    IF k = 0 THEN <<>>
    ELSE LET prev == UniqueNodes(all, k - 1)
             seen == {NodeKey(all[j]) : j \in 1..(k - 1)}
         IN  IF NodeKey(all[k]) \notin seen THEN Append(prev, all[k]) ELSE prev

combine_chunk_graphs(gs) ==
    LET all_nodes == AllNodes(gs, Len(gs))
    IN  [nodes |-> UniqueNodes(all_nodes, Len(all_nodes)),
         relationships |-> AllRelationships(gs, Len(gs))]

\* Partial graphs handed to combine_chunk_graphs.
MergeNodeA1 ==
    [id |-> "N0", label |-> "person",
     properties |-> Dict(<< <<"name", "A">>, <<"rank", "1">> >>)]

MergeNodeA2 ==
    [id |-> "N0", label |-> "person",
     properties |-> Dict(<< <<"rank", "1">>, <<"name", "A">> >>)]

MergeNodeB == [id |-> "N0", label |-> "person", properties |-> Dict(<< <<"name", "B">> >>)]

MergeNodeC == [id |-> "N13", label |-> "demon", properties |-> NoneProps]

MergeRelX ==
    [type |-> "FIGHTS", start_node_id |-> "N0", end_node_id |-> "N13",
     properties |-> Dict(<< <<"episode_number", "S1E01">> >>)]

MergeRelY ==
    [type |-> "FIGHTS", start_node_id |-> "N0", end_node_id |-> "N99",
     properties |-> NoneProps]

ChunkGraphUniverse ==
    { EmptyGraph,
      [nodes |-> <<MergeNodeA1, MergeNodeC>>, relationships |-> <<MergeRelX>>],
      [nodes |-> <<MergeNodeC, MergeNodeA1>>, relationships |-> <<MergeRelX, MergeRelY>>],
      [nodes |-> <<MergeNodeB, MergeNodeA1, MergeNodeB>>, relationships |-> <<MergeRelY>>],
      [nodes |-> <<MergeNodeA2>>, relationships |-> <<MergeRelX, MergeRelX>>],
      [nodes |-> <<MergeNodeC, MergeNodeB>>, relationships |-> <<>>] }

MInit ==
    /\ chunk_input \in SeqsUpTo(ChunkGraphUniverse, MaxChunks)
    /\ combined = EmptyGraph
    /\ mpc = "call"

MIdle ==
    /\ chunk_input = <<>>
    /\ combined = EmptyGraph
    /\ mpc = "call"

\* combine_chunk_graphs(chunk_graphs) (lines 136-167)
Combine ==
    /\ mpc = "call"
    /\ combined' = combine_chunk_graphs(chunk_input)
    /\ mpc' = "returned"
    /\ UNCHANGED <<chunk_input, wvars, pvars>>

MNext == Combine

-----------------------------------------------------------------------------
(* process_data and main *)

\* KOREAN_NODE_MAP (the Korean names are written romanised, prefixed "ko:")
KOREAN_NODE_MAP ==
    [name \in {"Tanjiro Kamado", "Nezuko Kamado", "Giyu Tomioka", "Sakonji Urokodaki",
               "Sabito", "Makomo", "Zenitsu Agatsuma", "Inosuke Hashibira",
               "Kanao Tsuyuri", "Kyojuro Rengoku", "Kagaya Ubuyashiki",
               "Shinobu Kocho", "Sanemi Shinazugawa", "Muzan Kibutsuji",
               "Susamaru", "Yahaba", "Kyogai", "Rui", "Enmu"} |->
        CASE name = "Tanjiro Kamado"     -> "ko:Kamado Tanjiro"
          [] name = "Nezuko Kamado"      -> "ko:Kamado Nejeuko"
          [] name = "Giyu Tomioka"       -> "ko:Tomioka Giyu"
          [] name = "Sakonji Urokodaki"  -> "ko:Urokodaki Sakonji"
          [] name = "Sabito"             -> "ko:Sabito"
          [] name = "Makomo"             -> "ko:Makomo"
          [] name = "Zenitsu Agatsuma"   -> "ko:Agacheuma Jenicheu"
          [] name = "Inosuke Hashibira"  -> "ko:Hasibira Inoseuke"
          [] name = "Kanao Tsuyuri"      -> "ko:Cheuyuri Kanao"
          [] name = "Kyojuro Rengoku"    -> "ko:Rengoku Kyojuro"
          [] name = "Kagaya Ubuyashiki"  -> "ko:Ubuyasiki Kagaya"
          [] name = "Shinobu Kocho"      -> "ko:Kochou Sinobu"
          [] name = "Sanemi Shinazugawa" -> "ko:Sinajeugawa Sanemi"
          [] name = "Muzan Kibutsuji"    -> "ko:Kibucheuji Mujan"
          [] name = "Susamaru"           -> "ko:Seusamaru"
          [] name = "Yahaba"             -> "ko:Yahaba"
          [] name = "Kyogai"             -> "ko:Kyougai"
          [] name = "Rui"                -> "ko:Rui"
          [] name = "Enmu"               -> "ko:Enmu"]

\* not episode.get("synopsis"): None and the empty string are falsy.
NoSynopsis(episode) == episode.synopsis \in {PyNone, ""}

\* f"S{episode['season']}E{episode['episode_in_season']:02d}" for season 1
EpisodeNumber(episode) ==
    CASE episode.episode_in_season = 1 -> "S1E01"
      [] episode.episode_in_season = 2 -> "S1E02"
      [] episode.episode_in_season = 3 -> "S1E03"
      [] OTHER -> "S1E04"

\* lines 241-243: properties None becomes {}, then ["episode_number"] is set
TagRelationship(rel, episode_number) ==
    [rel EXCEPT !.properties =
        Dict(DictSet(IF @.none THEN <<>> ELSE @.items, "episode_number", episode_number))]

\* node.properties.get(...) on properties None raises AttributeError (line 247)
LocalizeRaises(node) == node.properties.none

\* lines 247-249
LocalizeNode(node) ==
    LET english_name == DictGet(node.properties.items, "name", "")
    IN  IF english_name \in DOMAIN KOREAN_NODE_MAP
        THEN [node EXCEPT !.properties =
                Dict(DictSet(@.items, "name", KOREAN_NODE_MAP[english_name]))]
        ELSE node

\* The try block raises after the oracle returned g (lines 237-251).
PostProcessRaises(g) == \E k \in DOMAIN g.nodes : LocalizeRaises(g.nodes[k])

\* graph_response as appended to chunk_graphs (lines 237-251)
PostProcess(g, episode) ==
    [nodes |-> [k \in DOMAIN g.nodes |-> LocalizeNode(g.nodes[k])],
     relationships |->
        [k \in DOMAIN g.relationships |->
            TagRelationship(g.relationships[k], EpisodeNumber(episode))]]

\* What the extraction oracle may return for a synopsis.
OracleGraphs ==
    { [nodes |-> << [id |-> "N0", label |-> "person",
                     properties |-> Dict(<< <<"name", "Tanjiro Kamado">> >>)],
                    [id |-> "N13", label |-> "demon",
                     properties |-> Dict(<< <<"name", "Muzan Kibutsuji">> >>)] >>,
       relationships |-> << [type |-> "FIGHTS", start_node_id |-> "N0",
                             end_node_id |-> "N13",
                             properties |-> Dict(<< <<"outcome", "victory">> >>)] >>],
      [nodes |-> << [id |-> "N0", label |-> "person",
                     properties |-> Dict(<< <<"name", "Tanjiro">> >>)] >>,
       relationships |-> << [type |-> "FIGHTS", start_node_id |-> "N0",
                             end_node_id |-> "N13", properties |-> NoneProps] >>],
      [nodes |-> << [id |-> "N13", label |-> "demon", properties |-> NoneProps] >>,
       relationships |-> << [type |-> "FIGHTS", start_node_id |-> "N0",
                             end_node_id |-> "N13",
                             properties |-> Dict(<< <<"episode_number", "S9E99">> >>)] >>] }

OracleOutcomes ==
    {[fails |-> TRUE, graph |-> EmptyGraph]}
        \cup {[fails |-> FALSE, graph |-> g] : g \in OracleGraphs}

Synopses == {PyNone, "", "Tanjiro fights Muzan."}

\* collect_data for one season: the rows of the page, numbered from 1.
EpisodeLists ==
    {[k \in DOMAIN syn |-> [season |-> 1, episode_in_season |-> k, synopsis |-> syn[k]]] :
        syn \in SeqsUpTo(Synopses, MaxEpisodes)}

PInit ==
    /\ has_key \in BOOLEAN
    /\ episodes \in EpisodeLists
    /\ oracle \in [DOMAIN episodes -> OracleOutcomes]
    /\ ppc = "start"
    /\ ep = 0
    /\ chunk_graphs = <<>>
    /\ kept = <<>>
    /\ final_graph = EmptyGraph
    /\ saved = {}
    /\ exit_code = -1
    /\ error = ""

PIdle ==
    /\ has_key = FALSE
    /\ episodes = <<>>
    /\ oracle = <<>>
    /\ ppc = "start"
    /\ ep = 0
    /\ chunk_graphs = <<>>
    /\ kept = <<>>
    /\ final_graph = EmptyGraph
    /\ saved = {}
    /\ exit_code = -1
    /\ error = ""

\* main catches the exception and returns 1 (lines 314-316)
MainFails(msg) ==
    /\ error' = msg
    /\ exit_code' = 1
    /\ ppc' = "exit"

\* the OPENAI_API_KEY check (lines 284-289)
CheckKey ==
    /\ ppc = "start"
    /\ IF has_key
       THEN ppc' = "collect" /\ UNCHANGED exit_code
       ELSE ppc' = "exit" /\ exit_code' = 1
    /\ UNCHANGED <<has_key, episodes, oracle, ep, chunk_graphs, kept, final_graph,
                   saved, error, wvars, mvars>>

\* episodes = collect_data(); if not episodes: raise (lines 295-298)
Collect ==
    /\ ppc = "collect"
    /\ IF episodes = <<>>
       THEN MainFails("no episode data") /\ UNCHANGED ep
       ELSE ppc' = "episodes" /\ ep' = 1 /\ UNCHANGED <<exit_code, error>>
    /\ UNCHANGED <<has_key, episodes, oracle, chunk_graphs, kept, final_graph,
                   saved, wvars, mvars>>

\* one iteration of `for episode in episodes` in process_data (lines 225-255)
ProcessEpisode ==
    /\ ppc = "episodes"
    /\ LET episode == episodes[ep]
           skipped == \/ NoSynopsis(episode)
                      \/ oracle[ep].fails
                      \/ PostProcessRaises(oracle[ep].graph)
       IN  IF skipped
           THEN UNCHANGED <<chunk_graphs, kept>>
           ELSE /\ chunk_graphs' = Append(chunk_graphs, PostProcess(oracle[ep].graph, episode))
                /\ kept' = Append(kept, ep)
    /\ IF ep < Len(episodes)
       THEN ep' = ep + 1 /\ UNCHANGED ppc
       ELSE ppc' = "merge" /\ UNCHANGED ep
    /\ UNCHANGED <<has_key, episodes, oracle, final_graph, saved, exit_code, error,
                   wvars, mvars>>

\* the end of process_data (lines 257-261)
FinishProcess ==
    /\ ppc = "merge"
    /\ IF chunk_graphs = <<>>
       THEN MainFails("no graph extracted") /\ UNCHANGED final_graph
       ELSE /\ final_graph' = combine_chunk_graphs(chunk_graphs)
            /\ ppc' = "save"
            /\ UNCHANGED <<exit_code, error>>
    /\ UNCHANGED <<has_key, episodes, oracle, ep, chunk_graphs, kept, saved, wvars, mvars>>

\* save_output, which writes two files and may fail at either, then return 0
\* (lines 263-278, 304-318)
Save ==
    /\ ppc = "save"
    /\ \/ MainFails("cannot write") /\ saved' \in {{}, {"episodes"}}
       \/ /\ saved' = {"episodes", "graph"}
          /\ exit_code' = 0
          /\ ppc' = "exit"
          /\ UNCHANGED error
    /\ UNCHANGED <<has_key, episodes, oracle, ep, chunk_graphs, kept, final_graph,
                   wvars, mvars>>

PNext == CheckKey \/ Collect \/ ProcessEpisode \/ FinishProcess \/ Save

-----------------------------------------------------------------------------
(* Specifications *)

InitWriter == WInit /\ MIdle /\ PIdle

InitMerge == WIdle /\ MInit /\ PIdle

InitPrepare == WIdle /\ MIdle /\ PInit

\* Neo4jCreateWriter.run, called any number of times with one graph.
SpecWriter == InitWriter /\ [][WNext]_vars

\* combine_chunk_graphs applied to a sequence of partial graphs.
SpecMerge == InitMerge /\ [][MNext]_vars

\* main of 1_prepare_data.py.
SpecPrepare == InitPrepare /\ [][PNext]_vars

-----------------------------------------------------------------------------
(* The two write loops of run, taken as a whole (no reset): the first nn    *)
(* node writes followed by the first nr relationship writes.                *)

RECURSIVE MergeAll(_, _, _)
MergeAll(st, ns, k) == IF k = 0 THEN st ELSE MergeNode(MergeAll(st, ns, k - 1), ns[k])

RECURSIVE CreateAll(_, _, _)
CreateAll(st, rs, k) == IF k = 0 THEN st ELSE CreateRel(CreateAll(st, rs, k - 1), rs[k])

LoadPrefix(st, g, nn, nr) == CreateAll(MergeAll(st, g.nodes, nn), g.relationships, nr)

LoadNoReset(st, g) == LoadPrefix(st, g, Len(g.nodes), Len(g.relationships))

-----------------------------------------------------------------------------
(* Vocabulary of the writer claims *)

Succeeded == pc = "done" /\ result.status = "SUCCESS"

Failed == pc = "done" /\ result.status = "FAILURE"

NodeIds(g) == {g.nodes[k].id : k \in DOMAIN g.nodes}

EndpointsPresent(g) ==
    \A k \in DOMAIN g.relationships :
        /\ g.relationships[k].start_node_id \in NodeIds(g)
        /\ g.relationships[k].end_node_id \in NodeIds(g)

DistinctIds(g) ==
    \A j, k \in DOMAIN g.nodes : j # k => g.nodes[j].id # g.nodes[k].id

NoIdProperty(g) ==
    \A k \in DOMAIN g.nodes : "id" \notin Keys(OrEmpty(g.nodes[k].properties))

LabelsWithId(g, id) == {g.nodes[k].label : k \in {j \in DOMAIN g.nodes : g.nodes[j].id = id}}

RECURSIVE MatchedRows(_, _)
MatchedRows(g, k) ==
    IF k = 0 THEN 0
    ELSE MatchedRows(g, k - 1)
         + Cardinality(LabelsWithId(g, g.relationships[k].start_node_id))
           * Cardinality(LabelsWithId(g, g.relationships[k].end_node_id))

NodeCalls == {k \in DOMAIN calls : calls[k].op = "node"}

RelCalls == {k \in DOMAIN calls : calls[k].op = "rel"}

-----------------------------------------------------------------------------
(* C1 *)

\* C1 (as stated): a successful run on an empty store of a graph with N node
\* entries and M relationship entries, every endpoint being the id of some node
\* entry, leaves exactly N stored nodes and exactly M stored edges.
C1_Original ==
    (Succeeded /\ entry = EmptyStore /\ EndpointsPresent(graph))
        => /\ NodeCount(store) = Len(graph.nodes)
           /\ EdgeCount(store) = Len(graph.relationships)

\* C1 (amended): under the same premises, when no node's properties carry an
\* "id" key, the store holds one node per distinct (label, id) of the node
\* sequence and, per relationship, one edge per pair of stored nodes whose ids
\* are its start and end; when moreover the node ids are pairwise distinct this
\* is exactly N nodes and exactly M edges.
C1_Amended ==
    (Succeeded /\ entry = EmptyStore /\ EndpointsPresent(graph) /\ NoIdProperty(graph))
        => /\ NodeCount(store)
                = Cardinality({<<graph.nodes[k].label, graph.nodes[k].id>> :
                                  k \in DOMAIN graph.nodes})
           /\ EdgeCount(store) = MatchedRows(graph, Len(graph.relationships))
           /\ DistinctIds(graph)
                => /\ NodeCount(store) = Len(graph.nodes)
                   /\ EdgeCount(store) = Len(graph.relationships)

C1_Witness ==
    /\ Succeeded /\ entry = EmptyStore
    /\ EndpointsPresent(graph) /\ NoIdProperty(graph) /\ DistinctIds(graph)
    /\ Len(graph.nodes) = 2 /\ Len(graph.relationships) = 2
    /\ NodeCount(store) = 2 /\ EdgeCount(store) = 2

-----------------------------------------------------------------------------
(* C2 *)

\* C2: every load is a full replacement: after a successful run the store
\* holds no node and no edge that was in it when run was called, and its
\* contents are those of the same load on an empty store (so a second run of
\* the same graph leaves the store as the first one did).
C2_FullReplacement ==
    Succeeded
        => /\ \A k \in DOMAIN store.nodes : ~store.nodes[k].prior
           /\ \A e \in BagToSet(store.edges) : ~e.prior
           /\ store = LoadNoReset(EmptyStore, graph)

\* A second successful run of the same graph: the store it was called on held
\* the first run's nodes and edges, and the store it leaves is the same.
C2_Witness ==
    /\ Succeeded
    /\ NodeCount(entry) = 2 /\ EdgeCount(entry) >= 1
    /\ entry = store

-----------------------------------------------------------------------------
(* C3 *)

\* C3 (as stated): writing the nodes and relationships of the same graph (all
\* endpoints present) a second time, with no reset in between, yields N stored
\* nodes and 2M stored edges.
C3_Original ==
    (Succeeded /\ EndpointsPresent(graph))
        => LET twice == LoadNoReset(store, graph)
           IN  /\ NodeCount(twice) = Len(graph.nodes)
               /\ EdgeCount(twice) = 2 * Len(graph.relationships)

\* C3 (amended): when no node's properties carry an "id" key, the second
\* write adds no node and doubles the edges; when moreover the node ids are
\* pairwise distinct, that is N stored nodes and 2M stored edges.
C3_Amended ==
    (Succeeded /\ EndpointsPresent(graph) /\ NoIdProperty(graph))
        => LET twice == LoadNoReset(store, graph)
           IN  /\ NodeCount(twice) = NodeCount(store)
               /\ EdgeCount(twice) = 2 * EdgeCount(store)
               /\ DistinctIds(graph)
                    => /\ NodeCount(twice) = Len(graph.nodes)
                       /\ EdgeCount(twice) = 2 * Len(graph.relationships)

C3_Witness ==
    /\ Succeeded
    /\ EndpointsPresent(graph) /\ NoIdProperty(graph) /\ DistinctIds(graph)
    /\ Len(graph.nodes) = 2 /\ Len(graph.relationships) = 2
    /\ NodeCount(LoadNoReset(store, graph)) = 2
    /\ EdgeCount(LoadNoReset(store, graph)) = 4

-----------------------------------------------------------------------------
(* C4 *)

\* The relationship's start or end id is the id of no stored node.
Dangling(st, rel) == MatchEnds(st, rel) = {}

RECURSIVE CreatedBy(_)
CreatedBy(k) ==
    IF k = 0 THEN 0
    ELSE CreatedBy(k - 1) + (IF calls[k].op = "rel" THEN calls[k].created ELSE 0)

\* C4: a relationship write whose start or end id matches no stored node
\* creates no edge and raises nothing; the relationships after it are still
\* written, and a run the driver does not fail returns SUCCESS with
\* relationship_count the number of relationships submitted, whatever the
\* number of edges stored.
C4_DanglingIsSilent ==
    /\ \A k \in RelCalls :
          (~calls[k].raised /\ Dangling(store, graph.relationships[calls[k].idx]))
              => calls[k].created = 0
    /\ (pc = "done" /\ driver_up)
          => /\ result.status = "SUCCESS"
             /\ result.relationship_count = Len(graph.relationships)
             /\ Cardinality(RelCalls) = Len(graph.relationships)
             /\ EdgeCount(store) = CreatedBy(Len(calls))

C4_Witness ==
    /\ Succeeded
    /\ Len(graph.relationships) = 2
    /\ Dangling(store, graph.relationships[1])
    /\ ~Dangling(store, graph.relationships[2])
    /\ result.relationship_count = 2
    /\ EdgeCount(store) = 1

-----------------------------------------------------------------------------
(* C5 *)

Completed(op) == Cardinality({k \in DOMAIN calls : calls[k].op = op /\ ~calls[k].raised})

\* C5: when the wipe, a node write or a relationship write raises, run makes
\* no further store call and returns FAILURE with the error text (it returns,
\* it does not raise); what the calls before the failing one did stays done:
\* the store is the wiped store plus the nodes and edges already written (and
\* the untouched prior contents when the wipe itself failed).
C5_FailureKeepsPartialWrites ==
    /\ pc = "done" => result.status \in {"SUCCESS", "FAILURE"}
    /\ \A k \in DOMAIN calls : calls[k].raised => (k = Len(calls) /\ Failed)
    /\ result.status = "FAILURE"
          => /\ pc = "done"
             /\ result.error = DriverError
             /\ calls # <<>> /\ calls[Len(calls)].raised
             /\ store = IF Len(calls) = 1
                        THEN MarkPrior(entry)
                        ELSE LoadPrefix(EmptyStore, graph, Completed("node"), Completed("rel"))

C5_Witness ==
    /\ Failed
    /\ NodeCount(entry) > 0
    /\ calls[Len(calls)].op = "rel" /\ calls[Len(calls)].idx = 2
    /\ NodeCount(store) = 2 /\ EdgeCount(store) >= 1
    /\ \A k \in DOMAIN store.nodes : ~store.nodes[k].prior

-----------------------------------------------------------------------------
(* C6 *)

\* C6: within one run the wipe is the first store call and has completed
\* before any node write; the node writes are issued in the order of
\* graph.nodes, all of them before the first relationship write; the
\* relationship writes are issued in the order of graph.relationships.
C6_CallOrder ==
    /\ \A k \in DOMAIN calls : calls[k].op = "wipe" <=> k = 1
    /\ Len(calls) > 1 => ~calls[1].raised
    /\ \A k \in NodeCalls : calls[k].idx = k - 1
    /\ \A k \in RelCalls :
          /\ calls[k].idx = k - 1 - Len(graph.nodes)
          /\ \A j \in 2..(Len(graph.nodes) + 1) : calls[j].op = "node" /\ ~calls[j].raised

C6_Witness ==
    /\ Succeeded
    /\ Len(graph.nodes) = 2 /\ Len(graph.relationships) = 2
    /\ Len(calls) = 5

-----------------------------------------------------------------------------
(* Vocabulary of the merge claims *)

\* <<c, j>>: the j-th node (relationship) of the c-th input graph.
NodePositions(gs) == UNION {{<<c, j>> : j \in DOMAIN gs[c].nodes} : c \in DOMAIN gs}

RelPositions(gs) == UNION {{<<c, j>> : j \in DOMAIN gs[c].relationships} : c \in DOMAIN gs}

NodeAt(gs, p) == gs[p[1]].nodes[p[2]]

RelAt(gs, p) == gs[p[1]].relationships[p[2]]

\* Input order: graph by graph, and within a graph by index.
Before(p, q) == p[1] < q[1] \/ (p[1] = q[1] /\ p[2] < q[2])

Rank(S, p) == Cardinality({q \in S : Before(q, p)}) + 1

\* The positions whose node has not been seen (by its key) before.
FirstSeen(gs) ==
    {p \in NodePositions(gs) :
        ~\E q \in NodePositions(gs) :
            Before(q, p) /\ NodeKey(NodeAt(gs, q)) = NodeKey(NodeAt(gs, p))}

\* Python equality of two nodes: properties compare as dicts.
NodeEq(a, b) ==
    /\ a.id = b.id
    /\ a.label = b.label
    /\ a.properties.none = b.properties.none
    /\ DictEq(a.properties.items, b.properties.items)

Holds(nodes, n) == \E k \in DOMAIN nodes : nodes[k] = n

-----------------------------------------------------------------------------
(* C7 *)

\* C7: combine_chunk_graphs returns the nodes in order of first occurrence
\* across the inputs taken in order (a node counts as seen by its key: id,
\* label and serialized properties), and the relationships as the
\* concatenation of the inputs' relationship sequences: none dropped, none
\* deduplicated, none checked against the nodes.
C7_MergeOrder ==
    mpc = "returned"
        => /\ Len(combined.nodes) = Cardinality(FirstSeen(chunk_input))
           /\ \A p \in FirstSeen(chunk_input) :
                 combined.nodes[Rank(FirstSeen(chunk_input), p)] = NodeAt(chunk_input, p)
           /\ Len(combined.relationships) = Cardinality(RelPositions(chunk_input))
           /\ \A p \in RelPositions(chunk_input) :
                 combined.relationships[Rank(RelPositions(chunk_input), p)]
                    = RelAt(chunk_input, p)

\* Two graphs, the second with a node already seen and a new one; a repeated
\* relationship and one whose end is no node are both in the result.
C7_Witness ==
    /\ mpc = "returned"
    /\ Len(chunk_input) = 2
    /\ Len(combined.nodes) > Len(chunk_input[1].nodes)
    /\ Len(combined.nodes) < Len(chunk_input[1].nodes) + Len(chunk_input[2].nodes)
    /\ \E j, k \in DOMAIN combined.relationships :
          j < k /\ combined.relationships[j] = combined.relationships[k]
    /\ \E k \in DOMAIN combined.relationships :
          \A j \in DOMAIN combined.nodes :
              combined.nodes[j].id # combined.relationships[k].end_node_id

-----------------------------------------------------------------------------
(* C8 *)

\* C8 (as stated): of two input nodes with the same id and label, both are
\* kept when their properties differ and one is kept, the first encountered,
\* when their properties are identical; the output never holds two nodes
\* with the same (id, label, properties).
C8_Original ==
    mpc = "returned"
        => /\ \A p, q \in NodePositions(chunk_input) :
                 LET a == NodeAt(chunk_input, p)
                     b == NodeAt(chunk_input, q)
                 IN  /\ (a.id = b.id /\ a.label = b.label /\ ~NodeEq(a, b))
                          => Holds(combined.nodes, a) /\ Holds(combined.nodes, b)
                     /\ (NodeEq(a, b) /\ Before(p, q))
                          => \E r \in NodePositions(chunk_input) :
                                /\ ~Before(p, r)
                                /\ NodeEq(NodeAt(chunk_input, r), a)
                                /\ Holds(combined.nodes, NodeAt(chunk_input, r))
           /\ \A j, k \in DOMAIN combined.nodes :
                 j # k => ~NodeEq(combined.nodes[j], combined.nodes[k])

\* What C8 rests on: it fails only through two nodes that are equal but whose
\* properties were inserted in a different order, so that their keys differ.
SameOrderInputs ==
    \A p, q \in NodePositions(chunk_input) :
        NodeEq(NodeAt(chunk_input, p), NodeAt(chunk_input, q))
            => NodeKey(NodeAt(chunk_input, p)) = NodeKey(NodeAt(chunk_input, q))

C8_WhenKeysFollowEquality == SameOrderInputs => C8_Original

-----------------------------------------------------------------------------
(* Vocabulary of the process_data claims *)

\* The loop of process_data has run to its end.
LoopDone == has_key /\ episodes # <<>> /\ ppc \in {"merge", "save", "exit"}

\* The oracle was called for episode k and returned a graph.
OracleAnswered(k) == ~NoSynopsis(episodes[k]) /\ ~oracle[k].fails

Answered == {k \in DOMAIN episodes : OracleAnswered(k)}

-----------------------------------------------------------------------------
(* C9 *)

\* C9: an oracle failure skips its chunk only: every episode is still gone
\* through, the graphs of the chunks the oracle answered reach the merge in
\* episode order, and process_data raises (main returns 1, nothing is saved)
\* exactly when the oracle answered no chunk.
C9_Original ==
    LoopDone
        => /\ {kept[j] : j \in DOMAIN kept} = Answered
           /\ \A i, j \in DOMAIN kept : i < j => kept[i] < kept[j]
           /\ ppc \in {"save", "exit"}
                => /\ (error = "no graph extracted") <=> (Answered = {})
                   /\ (error = "no graph extracted") => (exit_code = 1 /\ saved = {})

-----------------------------------------------------------------------------
(* C10 *)

\* C10: every chunk with a synopsis for which the oracle returned a graph
\* (node properties possibly absent) has all its nodes and relationships in
\* the merge; the tagging and the name localization leave no chunk out.
C10_Original ==
    LoopDone
        => \A k \in Answered :
              \E j \in DOMAIN kept :
                  /\ kept[j] = k
                  /\ Len(chunk_graphs[j].nodes) = Len(oracle[k].graph.nodes)
                  /\ Len(chunk_graphs[j].relationships)
                        = Len(oracle[k].graph.relationships)

\* What C9 and C10 rest on: both fail only through a graph the oracle returned
\* with a node whose properties are absent.
AllNodesCarryProperties ==
    \A k \in DOMAIN oracle :
        \A j \in DOMAIN oracle[k].graph.nodes : ~oracle[k].graph.nodes[j].properties.none

C9_WhenNodesCarryProperties == AllNodesCarryProperties => C9_Original

C10_WhenNodesCarryProperties == AllNodesCarryProperties => C10_Original

=============================================================================
